---- MODULE Spec2Model ----
(***************************************************************************)
(* Training-loop controller of models/T3_style_lim100/src/main_CNN2D.py:   *)
(* main() sequences train_model / eval_model, steps the                    *)
(* CosineAnnealingWarmRestarts scheduler, calls EarlyStopping, breaks out  *)
(* of the epoch loop or is interrupted by KeyboardInterrupt, then writes   *)
(* ElapsedTime.txt and one ConfusionMatrix report per split.               *)
(*                                                                         *)
(* utils/evaluate.py (EarlyStopping, ConfusionMatrix) and                  *)
(* utils/train_CNN2D.py (train_model, eval_model) are not part of the      *)
(* available sources; their behaviour is taken from spec.md 4.1, 4.3, 4.5. *)
(* scheduler.step is torch.optim.lr_scheduler.CosineAnnealingWarmRestarts  *)
(* .step(epoch=None): main passes loss/cfg.batch_size as its only          *)
(* positional argument, i.e. as `epoch`.                                   *)
(***************************************************************************)
EXTENDS Integers, Sequences, FiniteSets, TLC

\* ---------------------------------------------------------------- bounds
MaxEpoch == 10
MaxPatience == 3
MaxBatch == 2
SpikeLoss == 160
\* metric steps one training pass adds to n_iter (one per batch of train_loader)
BatchesPerEpoch == 2

\* validation losses eval_model may return (mean loss, lower is better)
Losses == {4, 5, SpikeLoss}

\* ------------------------------------------------------------- constants
\* CosineAnnealingWarmRestarts(optimizer, T_0=50, T_mult=2, eta_min=0.001)
T_0 == 50
T_mult == 2
\* EarlyStopping: min_delta is 0 when unspecified, best_score starts at +inf
min_delta == 0
Inf == SpikeLoss + 1

phaze == <<"train", "val", "test">>

VARIABLES
    cfg_epoch,        \* cfg.epoch: maximum epoch count
    cfg_patience,     \* cfg.patience
    cfg_batch_size,   \* cfg.batch_size
    pc,               \* position of main()
    ctl,              \* controller state RUNNING/STOPPING_EARLY/INTERRUPTED/DONE
    epoch,            \* loop variable of `for epoch in range(cfg.epoch)`
    epoch_bound,      \* FALSE until the for statement has assigned epoch
    loss,             \* value returned by the last eval_model call
    scores,           \* validation losses returned so far, in order
    scheduler,        \* T_cur (as numerator over cfg.batch_size), T_i, last_epoch
    earlystopping,    \* best_score, counter, early_stop
    ckpts,            \* epoch labels of the checkpoint files epochNNNNN.pt
    save_ep,          \* local save_ep (save_model_dir is epoch{save_ep}.pt)
    save_bound,       \* FALSE until save_ep / save_model_dir are assigned
    trained,          \* number of train_model calls that returned
    stepped,          \* number of scheduler.step calls that returned
    evaluated,        \* number of earlystopping(...) evaluations done
    elapsed_written,  \* number of times ElapsedTime.txt was written
    idx,              \* loop index of the reporting loop
    reports,          \* ConfusionMatrix reports written, in order
    sigint,           \* TRUE once KeyboardInterrupt has been raised
    failed,           \* TRUE once a pass or the checkpoint write has raised an error
    n_iter,           \* local n_iter: metric step counter
    train_step,       \* n_iter argument of the last train_model call
    val_step          \* n_iter argument of the last eval_model call

vars == <<cfg_epoch, cfg_patience, cfg_batch_size, pc, ctl, epoch, epoch_bound,
          loss, scores, scheduler, earlystopping, ckpts, save_ep, save_bound,
          trained, stepped, evaluated, elapsed_written, idx, reports, sigint,
          failed, n_iter, train_step, val_step>>

itervars == <<n_iter, train_step, val_step>>

cfgvars == <<cfg_epoch, cfg_patience, cfg_batch_size>>

\* ------------------------------------------------------------ scheduler
RECURSIVE Pow(_, _)
Pow(b, n) == IF n = 0 THEN 1 ELSE b * Pow(b, n - 1)

\* n = int(log(epoch / T_0 * (T_mult - 1) + 1, T_mult)) for epoch = num/den
RECURSIVE RestartIndex(_, _, _)
RestartIndex(num, den, n) ==
    IF Pow(T_mult, n + 1) * T_0 * den <= num * (T_mult - 1) + T_0 * den
    THEN RestartIndex(num, den, n + 1)
    ELSE n

\* CosineAnnealingWarmRestarts.step(epoch) with epoch = num/den given:
\* the position T_cur and the period T_i are recomputed from the argument.
SchedulerStep(s, num, den) ==
    IF num >= T_0 * den
    THEN LET n == RestartIndex(num, den, 0)
         IN [T_cur_n    |-> num - ((T_0 * (Pow(T_mult, n) - 1)) \div (T_mult - 1)) * den,
             T_i        |-> T_0 * Pow(T_mult, n),
             last_epoch |-> num \div den]
    ELSE [T_cur_n |-> num, T_i |-> T_0, last_epoch |-> num \div den]

\* the learning rate is eta_min + (base - eta_min) * (1 + cos(pi * T_cur / T_i)) / 2:
\* two scheduler states give the same rate iff T_cur / T_i agree
SameRate(s1, s2) == s1.T_cur_n * s2.T_i = s2.T_cur_n * s1.T_i

\* --------------------------------------------------------- EarlyStopping
Improved(es, score) == score < es.best_score - min_delta

Evaluate(es, score, patience) ==
    IF Improved(es, score)
    THEN [best_score |-> score, counter |-> 0, early_stop |-> es.early_stop]
    ELSE [best_score |-> es.best_score,
          counter    |-> es.counter + 1,
          early_stop |-> (es.counter + 1 >= patience)]

\* ------------------------------------------------------------------ Init
Init ==
    /\ cfg_epoch \in 1..MaxEpoch
    /\ cfg_patience \in 1..MaxPatience
    /\ cfg_batch_size \in 1..MaxBatch
    /\ pc = "setup"
    /\ ctl = "RUNNING"
    /\ epoch = 0
    /\ epoch_bound = FALSE
    /\ loss = 0
    /\ scores = <<>>
    /\ scheduler = [T_cur_n |-> 0, T_i |-> T_0, last_epoch |-> 0]
    /\ earlystopping = [best_score |-> Inf, counter |-> 0, early_stop |-> FALSE]
    /\ ckpts = {}
    /\ save_ep = 0
    /\ save_bound = FALSE
    /\ trained = 0
    /\ stepped = 0
    /\ evaluated = 0
    /\ elapsed_written = 0
    /\ idx = 0
    /\ reports = <<>>
    /\ sigint = FALSE
    /\ failed = FALSE
    /\ n_iter = 0
    /\ train_step = 0
    /\ val_step = 0

\* --------------------------------------------------------------- actions
\* lines 61-66: timing events, n_iter = 0, EarlyStopping(patience=cfg.patience)
Setup ==
    /\ pc = "setup"
    /\ earlystopping' = [best_score |-> Inf, counter |-> 0, early_stop |-> FALSE]
    /\ n_iter' = 0
    /\ pc' = "for"
    /\ UNCHANGED <<cfgvars, failed, train_step, val_step, ctl, epoch, epoch_bound, loss,
                   scores, scheduler, ckpts, save_ep, save_bound, trained, stepped,
                   evaluated, elapsed_written, idx, reports, sigint>>

\* line 67: for epoch in range(cfg.epoch) -- next value, or loop exhausted
ForNext ==
    /\ pc = "for"
    /\ LET nxt == IF epoch_bound THEN epoch + 1 ELSE 0
       IN IF nxt < cfg_epoch
          THEN /\ epoch' = nxt
               /\ epoch_bound' = TRUE
               /\ pc' = "train"
               /\ ctl' = ctl
          ELSE /\ pc' = "done"
               /\ ctl' = "DONE"
               /\ UNCHANGED <<epoch, epoch_bound>>
    /\ UNCHANGED <<cfgvars, failed, itervars, loss, scores, scheduler, earlystopping, ckpts,
                   save_ep, save_bound, trained, stepped, evaluated,
                   elapsed_written, idx, reports, sigint>>

\* variant of Train: the validation pass is skipped
TrainSkipsEval ==
    /\ pc = "train"
    /\ trained' = trained + 1
    /\ train_step' = n_iter
    /\ n_iter' = n_iter + BatchesPerEpoch
    /\ pc' = "sched"
    /\ UNCHANGED <<cfgvars, failed, val_step, ctl, epoch, epoch_bound, loss, scores, scheduler,
                   earlystopping, ckpts, save_ep, save_bound, stepped, evaluated,
                   elapsed_written, idx, reports, sigint>>

\* variant of Train: the counter returned by train_model is not kept
TrainDropsReturn ==
    /\ pc = "train"
    /\ trained' = trained + 1
    /\ train_step' = n_iter
    /\ n_iter' = n_iter
    /\ pc' = "eval"
    /\ UNCHANGED <<cfgvars, failed, val_step, ctl, epoch, epoch_bound, loss, scores,
                   scheduler, earlystopping, ckpts, save_ep, save_bound, stepped,
                   evaluated, elapsed_written, idx, reports, sigint>>

\* line 68: n_iter = train_model(..., n_iter): the pass logs one step per batch
\* and returns the advanced counter
Train ==
    /\ pc = "train"
    /\ trained' = trained + 1
    /\ train_step' = n_iter
    /\ n_iter' = n_iter + BatchesPerEpoch
    /\ pc' = "eval"
    /\ UNCHANGED <<cfgvars, failed, val_step, ctl, epoch, epoch_bound, loss, scores, scheduler,
                   earlystopping, ckpts, save_ep, save_bound, stepped, evaluated,
                   elapsed_written, idx, reports, sigint>>

\* line 70: loss = eval_model(..., n_iter)
Eval ==
    /\ pc = "eval"
    /\ \E l \in Losses :
          /\ loss' = l
          /\ scores' = Append(scores, l)
    /\ val_step' = n_iter
    /\ pc' = "sched"
    /\ UNCHANGED <<cfgvars, failed, n_iter, train_step, ctl, epoch, epoch_bound, scheduler,
                   earlystopping, ckpts,
                   save_ep, save_bound, trained, stepped, evaluated,
                   elapsed_written, idx, reports, sigint>>

\* line 71: scheduler.step(loss/cfg.batch_size)
SchedStep ==
    /\ pc = "sched"
    /\ scheduler' = SchedulerStep(scheduler, loss, cfg_batch_size)
    /\ stepped' = stepped + 1
    /\ pc' = "es"
    /\ UNCHANGED <<cfgvars, failed, itervars, ctl, epoch, epoch_bound, loss, scores, earlystopping,
                   ckpts, save_ep, save_bound, trained, evaluated,
                   elapsed_written, idx, reports, sigint>>

\* variant of EarlyStoppingCall: the policy is given the batch-normalized
\* loss that the scheduler gets, not the validation loss itself
EarlyStoppingCallNormalized ==
    /\ pc = "es"
    /\ earlystopping' = Evaluate(earlystopping, loss \div cfg_batch_size, cfg_patience)
    /\ evaluated' = evaluated + 1
    /\ pc' = "save"
    /\ UNCHANGED <<cfgvars, failed, itervars, ctl, epoch, epoch_bound, loss, scores, scheduler, ckpts,
                   save_ep, save_bound, trained, stepped,
                   elapsed_written, idx, reports, sigint>>

\* line 73: earlystopping(loss, model, log_dir / f'epoch{epoch:05}.pt') -- evaluation
EarlyStoppingCall ==
    /\ pc = "es"
    /\ earlystopping' = Evaluate(earlystopping, loss, cfg_patience)
    /\ evaluated' = evaluated + 1
    /\ pc' = "save"
    /\ UNCHANGED <<cfgvars, failed, itervars, ctl, epoch, epoch_bound, loss, scores, scheduler, ckpts,
                   save_ep, save_bound, trained, stepped,
                   elapsed_written, idx, reports, sigint>>

\* variant of SaveCheckpoint: the file is written only for an epoch that
\* improved the validation score
SaveCheckpointOnImprovement ==
    /\ pc = "save"
    /\ ckpts' = IF earlystopping.counter = 0 THEN ckpts \cup {epoch} ELSE ckpts
    /\ pc' = "check"
    /\ UNCHANGED <<cfgvars, failed, itervars, ctl, epoch, epoch_bound, loss, scores,
                   scheduler, earlystopping, save_ep, save_bound, trained, stepped,
                   evaluated, elapsed_written, idx, reports, sigint>>

\* line 73, continued: the checkpoint of this epoch is persisted under its label
SaveCheckpoint ==
    /\ pc = "save"
    /\ ckpts' = ckpts \cup {epoch}
    /\ pc' = "check"
    /\ UNCHANGED <<cfgvars, failed, itervars, ctl, epoch, epoch_bound, loss, scores, scheduler,
                   earlystopping, save_ep, save_bound, trained, stepped, evaluated,
                   elapsed_written, idx, reports, sigint>>

\* variant of Check: the reporting epoch is off by one
CheckOffByOne ==
    /\ pc = "check"
    /\ IF earlystopping.early_stop
       THEN /\ save_ep' = epoch - cfg_patience + 1
            /\ save_bound' = TRUE
            /\ ctl' = "STOPPING_EARLY"
            /\ pc' = "done"
       ELSE /\ pc' = "for"
            /\ UNCHANGED <<save_ep, save_bound, ctl>>
    /\ UNCHANGED <<cfgvars, failed, itervars, epoch, epoch_bound, loss, scores, scheduler,
                   earlystopping, ckpts, trained, stepped, evaluated,
                   elapsed_written, idx, reports, sigint>>

\* variant of Check: the stop flag is read but the loop is not left
CheckNoBreak ==
    /\ pc = "check"
    /\ IF earlystopping.early_stop
       THEN /\ save_ep' = epoch - cfg_patience
            /\ save_bound' = TRUE
       ELSE UNCHANGED <<save_ep, save_bound>>
    /\ pc' = "for"
    /\ UNCHANGED <<cfgvars, failed, itervars, ctl, epoch, epoch_bound, loss, scores, scheduler,
                   earlystopping, ckpts, trained, stepped, evaluated,
                   elapsed_written, idx, reports, sigint>>

\* variant of Check: the checkpoint of the stop epoch itself is selected
CheckSelectsStopEpoch ==
    /\ pc = "check"
    /\ IF earlystopping.early_stop
       THEN /\ save_ep' = epoch
            /\ save_bound' = TRUE
            /\ ctl' = "STOPPING_EARLY"
            /\ pc' = "done"
       ELSE /\ pc' = "for"
            /\ UNCHANGED <<save_ep, save_bound, ctl>>
    /\ UNCHANGED <<cfgvars, failed, itervars, epoch, epoch_bound, loss, scores, scheduler,
                   earlystopping, ckpts, trained, stepped, evaluated,
                   elapsed_written, idx, reports, sigint>>

\* variant of Check: the stop is recorded but the break is missing
CheckFlagsNoBreak ==
    /\ pc = "check"
    /\ IF earlystopping.early_stop
       THEN /\ save_ep' = epoch - cfg_patience
            /\ save_bound' = TRUE
            /\ ctl' = "STOPPING_EARLY"
       ELSE UNCHANGED <<save_ep, save_bound, ctl>>
    /\ pc' = "for"
    /\ UNCHANGED <<cfgvars, failed, itervars, epoch, epoch_bound, loss, scores, scheduler,
                   earlystopping, ckpts, trained, stepped, evaluated,
                   elapsed_written, idx, reports, sigint>>

\* lines 74-81: if earlystopping.early_stop: save_ep = epoch - cfg.patience; break
Check ==
    /\ pc = "check"
    /\ IF earlystopping.early_stop
       THEN /\ save_ep' = epoch - cfg_patience
            /\ save_bound' = TRUE
            /\ ctl' = "STOPPING_EARLY"
            /\ pc' = "done"
       ELSE /\ pc' = "for"
            /\ UNCHANGED <<save_ep, save_bound, ctl>>
    /\ UNCHANGED <<cfgvars, failed, itervars, epoch, epoch_bound, loss, scores, scheduler,
                   earlystopping, ckpts, trained, stepped, evaluated,
                   elapsed_written, idx, reports, sigint>>

\* line 82: print('Done.'), last statement of the try block
Done ==
    /\ pc = "done"
    /\ pc' = "elapsed"
    /\ UNCHANGED <<cfgvars, failed, itervars, ctl, epoch, epoch_bound, loss, scores, scheduler,
                   earlystopping, ckpts, save_ep, save_bound, trained, stepped,
                   evaluated, elapsed_written, idx, reports, sigint>>

\* statements of the try block (lines 61-82): KeyboardInterrupt is caught there
TryPcs == {"setup", "for", "train", "eval", "sched", "es", "save", "check", "done"}

\* variant of KeyboardInterrupt: the handler sits inside the loop, records
\* save_ep and lets the loop go on
KeyboardInterruptResume ==
    /\ pc \in TryPcs
    /\ epoch_bound
    /\ ~sigint
    /\ sigint' = TRUE
    /\ save_ep' = epoch - 1
    /\ save_bound' = TRUE
    /\ pc' = "for"
    /\ UNCHANGED <<cfgvars, failed, itervars, ctl, epoch, epoch_bound, loss, scores, scheduler,
                   earlystopping, ckpts, trained, stepped, evaluated,
                   elapsed_written, idx, reports>>

\* variant of KeyboardInterrupt: the handler subtracts the patience as the
\* early-stop branch does
KeyboardInterruptMinusPatience ==
    /\ pc \in TryPcs
    /\ epoch_bound
    /\ sigint' = TRUE
    /\ save_ep' = epoch - 1 - cfg_patience
    /\ save_bound' = TRUE
    /\ ctl' = "INTERRUPTED"
    /\ pc' = "elapsed"
    /\ UNCHANGED <<cfgvars, failed, itervars, epoch, epoch_bound, loss, scores, scheduler,
                   earlystopping, ckpts, trained, stepped, evaluated,
                   elapsed_written, idx, reports>>

\* lines 83-88: except KeyboardInterrupt: save_ep = epoch - 1
KeyboardInterrupt ==
    /\ pc \in TryPcs
    /\ epoch_bound
    /\ sigint' = TRUE
    /\ save_ep' = epoch - 1
    /\ save_bound' = TRUE
    /\ ctl' = "INTERRUPTED"
    /\ pc' = "elapsed"
    /\ UNCHANGED <<cfgvars, failed, itervars, epoch, epoch_bound, loss, scores, scheduler,
                   earlystopping, ckpts, trained, stepped, evaluated,
                   elapsed_written, idx, reports>>

\* line 87 when the for statement has not yet assigned epoch:
\* `epoch - 1` raises UnboundLocalError inside the handler, main() dies
KeyboardInterruptUnbound ==
    /\ pc \in TryPcs
    /\ ~epoch_bound
    /\ sigint' = TRUE
    /\ pc' = "aborted"
    /\ UNCHANGED <<cfgvars, failed, itervars, ctl, epoch, epoch_bound, loss, scores, scheduler,
                   earlystopping, ckpts, save_ep, save_bound, trained, stepped,
                   evaluated, elapsed_written, idx, reports>>

\* steps whose failure the try block does not catch: train_model, eval_model
\* and the checkpoint write raise something other than KeyboardInterrupt
FailPcs == {"train", "eval", "save"}

\* variant of Failure: a bare except clause treats every exception like the
\* interrupt and goes on to the reporting stage
FailureSwallowed ==
    /\ pc \in FailPcs
    /\ failed' = TRUE
    /\ save_ep' = epoch - 1
    /\ save_bound' = TRUE
    /\ pc' = "elapsed"
    /\ UNCHANGED <<cfgvars, itervars, ctl, epoch, epoch_bound, loss, scores, scheduler,
                   earlystopping, ckpts, trained, stepped,
                   evaluated, elapsed_written, idx, reports, sigint>>

\* lines 60-83: the only except clause is KeyboardInterrupt, so any other
\* exception leaves main() at once
Failure ==
    /\ pc \in FailPcs
    /\ failed' = TRUE
    /\ pc' = "aborted"
    /\ UNCHANGED <<cfgvars, itervars, ctl, epoch, epoch_bound, loss, scores, scheduler,
                   earlystopping, ckpts, save_ep, save_bound, trained, stepped,
                   evaluated, elapsed_written, idx, reports, sigint>>

\* lines 89-99: elapsed time written to ElapsedTime.txt, reporting loop starts
Elapsed ==
    /\ pc = "elapsed"
    /\ elapsed_written' = elapsed_written + 1
    /\ idx' = 0
    /\ pc' = "report"
    /\ UNCHANGED <<cfgvars, failed, itervars, ctl, epoch, epoch_bound, loss, scores, scheduler,
                   earlystopping, ckpts, save_ep, save_bound, trained, stepped,
                   evaluated, reports, sigint>>

\* lines 100-112: ConfusionMatrix(model_PATH=save_model_dir, save_name=phaze_save_ep)
Report ==
    /\ pc = "report"
    /\ save_bound
    /\ save_ep \in ckpts
    /\ reports' = Append(reports, [split |-> phaze[idx + 1],
                                   model_PATH |-> save_ep,
                                   save_name |-> <<phaze[idx + 1], save_ep>>])
    /\ idx' = idx + 1
    /\ pc' = IF idx + 1 < Len(phaze) THEN "report" ELSE "finished"
    /\ UNCHANGED <<cfgvars, failed, itervars, ctl, epoch, epoch_bound, loss, scores, scheduler,
                   earlystopping, ckpts, save_ep, save_bound, trained, stepped,
                   evaluated, elapsed_written, sigint>>

\* line 104 when save_model_dir was never assigned: UnboundLocalError while the
\* arguments of the first ConfusionMatrix call are evaluated
ReportUnbound ==
    /\ pc = "report"
    /\ ~save_bound
    /\ pc' = "aborted"
    /\ UNCHANGED <<cfgvars, failed, itervars, ctl, epoch, epoch_bound, loss, scores, scheduler,
                   earlystopping, ckpts, save_ep, save_bound, trained, stepped,
                   evaluated, elapsed_written, idx, reports, sigint>>

\* ConfusionMatrix on a checkpoint file that does not exist: fatal (spec 4.5)
ReportMissing ==
    /\ pc = "report"
    /\ save_bound
    /\ save_ep \notin ckpts
    /\ pc' = "aborted"
    /\ UNCHANGED <<cfgvars, failed, itervars, ctl, epoch, epoch_bound, loss, scores, scheduler,
                   earlystopping, ckpts, save_ep, save_bound, trained, stepped,
                   evaluated, elapsed_written, idx, reports, sigint>>

Next ==
    \/ Setup
    \/ ForNext
    \/ Train
    \/ Eval
    \/ SchedStep
    \/ EarlyStoppingCall
    \/ SaveCheckpoint
    \/ Check
    \/ Done
    \/ KeyboardInterrupt
    \/ KeyboardInterruptUnbound
    \/ Failure
    \/ Elapsed
    \/ Report
    \/ ReportUnbound
    \/ ReportMissing

Spec == Init /\ [][Next]_vars

TypeOK ==
    /\ pc \in TryPcs \cup {"elapsed", "report", "finished", "aborted"}
    /\ ctl \in {"RUNNING", "STOPPING_EARLY", "INTERRUPTED", "DONE"}
    /\ epoch \in 0..(cfg_epoch - 1)
    /\ Len(scores) <= cfg_epoch
    /\ idx \in 0..Len(phaze)

\* ------------------------------------------------- derived notions (spec 4.4)
\* stop_epoch: the epoch at which the loop was left; on interruption the
\* epoch before the one the loop variable holds
stop_epoch == IF ctl = "INTERRUPTED" THEN epoch - 1 ELSE epoch

Clamp0(n) == IF n < 0 THEN 0 ELSE n

\* label of the last epoch whose checkpoint has been persisted (-1: none)
LastCompleted == Cardinality(ckpts) - 1

Terminated == pc \in {"finished", "aborted"}

MidEpoch == {"train", "eval", "sched", "es", "save"}

NoImprovementAfter0 ==
    /\ Len(scores) >= 1
    /\ \A i \in 2..Len(scores) : scores[i] >= scores[1]

\* ------------------------------------------------------------------- C1
\* C1: whenever the reporting stage is reached, whichever terminal state led
\* there, a checkpoint has been selected and its label is
\* stop_epoch - patience clamped at 0.
C1_ReportingCheckpoint ==
    pc = "report" =>
        /\ save_bound
        /\ save_ep = Clamp0(stop_epoch - cfg_patience)

\* ------------------------------------------------------------------- C2
\* C2: a run whose loop ran all cfg.epoch epochs without an early stop (DONE)
\* ends with stop_epoch = max_epoch - 1, the elapsed time recorded and one
\* report per split.
C2_DoneReports ==
    (ctl = "DONE" /\ Terminated) =>
        /\ stop_epoch = cfg_epoch - 1
        /\ elapsed_written = 1
        /\ Len(reports) = Len(phaze)

\* ------------------------------------------------------------------- C3
\* C3: when EarlyStopping flags stop after the validation of epoch e the loop
\* is left with stop_epoch = e, no pass of a later epoch runs, and the
\* checkpoint of epoch e - patience is the one reported on; with
\* max_epoch = 10, patience = 3 and no improvement after epoch 0 the run
\* stops at epoch 3 and reports on the checkpoint of epoch 0.
C3_EarlyStop ==
    /\ earlystopping.early_stop =>
          /\ evaluated = epoch + 1
          /\ trained = epoch + 1
          /\ Len(scores) = epoch + 1
          /\ pc \notin {"for", "train", "eval", "sched", "es"}
    /\ ctl = "STOPPING_EARLY" =>
          /\ earlystopping.early_stop
          /\ stop_epoch = evaluated - 1
          /\ save_bound
          /\ save_ep = stop_epoch - cfg_patience
          /\ save_ep \in ckpts
          /\ \A i \in 1..Len(reports) : reports[i].model_PATH = stop_epoch - cfg_patience
    /\ (cfg_epoch = 10 /\ cfg_patience = 3 /\ NoImprovementAfter0) =>
          /\ Len(scores) <= 4
          /\ (evaluated = 4) = earlystopping.early_stop
          /\ ctl = "STOPPING_EARLY" => (stop_epoch = 3 /\ save_ep = 0)
          /\ ctl # "DONE"

C3_Witness ==
    /\ cfg_epoch = 10
    /\ cfg_patience = 3
    /\ NoImprovementAfter0
    /\ ctl = "STOPPING_EARLY"
    /\ pc = "finished"
    /\ epoch = 3
    /\ Len(reports) = 3
    /\ reports[1].model_PATH = 0

\* ------------------------------------------------------------------- C4
\* C4: a KeyboardInterrupt raised at any point while the controller is
\* RUNNING moves it to INTERRUPTED with stop_epoch = current epoch - 1, and
\* that is the last fully completed epoch.
C4_InterruptStopEpoch ==
    [][(ctl = "RUNNING" /\ ~sigint /\ sigint') =>
          /\ ctl' = "INTERRUPTED"
          /\ epoch_bound
          /\ save_bound'
          /\ save_ep' = epoch - 1
          /\ LastCompleted = epoch - 1]_vars

\* ------------------------------------------------------------------- C5
\* C5: the scheduler position and period, hence the learning rate, reached
\* by a step are the same whatever validation loss is passed to the step.
C5_LossIgnored ==
    [][stepped' # stepped =>
          \A l \in Losses :
             LET other == SchedulerStep(scheduler, l, cfg_batch_size)
             IN /\ SameRate(scheduler', other)
                /\ scheduler'.T_i = other.T_i]_vars

\* ------------------------------------------------------------------- C6
\* C6: the EarlyStopping counter never exceeds patience; an evaluation
\* resets it to 0 exactly when current_score < best_score - min_delta and
\* otherwise increments it by exactly 1; nothing else changes it.
C6_CounterBounded ==
    [][/\ earlystopping'.counter <= cfg_patience
       /\ evaluated' # evaluated =>
             /\ (earlystopping'.counter = 0) = (loss < earlystopping.best_score - min_delta)
             /\ earlystopping'.counter # 0 =>
                   earlystopping'.counter = earlystopping.counter + 1
       /\ evaluated' = evaluated =>
             earlystopping'.counter = earlystopping.counter]_vars

C6_Witness ==
    /\ earlystopping.counter = cfg_patience
    /\ cfg_patience = 3
    /\ earlystopping.early_stop
    /\ Len(scores) >= 1
    /\ earlystopping.best_score < scores[1]

\* ------------------------------------------------------------------- C7
\* C7 as stated: with scores 5, 4, 4, 4 and patience 2 the policy returns
\* stop at the 3rd evaluation (index 2) with best_score 4.
C7_StopAtThird ==
    (cfg_patience = 2 /\ scores = <<5, 4, 4>> /\ evaluated = 3) =>
        /\ earlystopping.early_stop
        /\ earlystopping.best_score = 4

\* C7 amended: with scores 5, 4, 4, 4 and patience 2 the 3rd evaluation
\* (index 2) is the first tie, counter 1, no stop; stop is returned at the
\* 4th evaluation (index 3) with best_score 4.
C7_StopAtFourth ==
    /\ (cfg_patience = 2 /\ scores = <<5, 4, 4>> /\ evaluated = 3) =>
          /\ ~earlystopping.early_stop
          /\ earlystopping.counter = 1
          /\ earlystopping.best_score = 4
    /\ (cfg_patience = 2 /\ scores = <<5, 4, 4, 4>> /\ evaluated = 4) =>
          /\ earlystopping.early_stop
          /\ earlystopping.counter = 2
          /\ earlystopping.best_score = 4
          /\ epoch = 3

C7_Witness ==
    /\ cfg_patience = 2
    /\ scores = <<5, 4, 4, 4>>
    /\ evaluated = 4
    /\ ctl = "STOPPING_EARLY"
    /\ stop_epoch = 3

\* ------------------------------------------------------------------- C8
\* C8: once the loop has been left the elapsed time is written exactly once,
\* and then ConfusionMatrix runs exactly once per split in the order train,
\* val, test, each time with the same checkpoint and epoch label.
C8_ReportsOnce ==
    /\ elapsed_written <= 1
    /\ elapsed_written = 0 => reports = <<>>
    /\ \A i \in 1..Len(reports) :
          /\ reports[i].split = phaze[i]
          /\ reports[i].model_PATH = reports[1].model_PATH
          /\ reports[i].save_name = <<phaze[i], reports[1].model_PATH>>
    /\ (Terminated /\ elapsed_written > 0) => Len(reports) = Len(phaze)

\* ------------------------------------------------------------------- C9
\* C9 as stated: the signal takes effect only at an epoch boundary, never
\* while a step of an epoch is in progress.
C9_OnlyAtBoundary ==
    [][(~sigint /\ sigint') => pc \notin MidEpoch]_vars

\* C9 amended: the signal takes effect at once, whatever step is in
\* progress: that step and the rest of the epoch are abandoned, and from the
\* signal on no training pass, validation pass, scheduler step,
\* EarlyStopping evaluation or checkpoint write completes.
C9_Immediate ==
    [][sigint' =>
          /\ pc' \notin TryPcs
          /\ UNCHANGED <<trained, scores, stepped, evaluated, scheduler,
                         earlystopping, ckpts, epoch>>]_vars

C9_Witness ==
    /\ sigint
    /\ ctl = "INTERRUPTED"
    /\ pc = "finished"
    /\ trained = epoch + 1
    /\ Len(scores) = epoch + 1
    /\ epoch \notin ckpts

\* ------------------------------------------------------------------ C10
\* C10: per epoch the steps run in the order train, validate, scheduler step
\* with loss / batch_size, EarlyStopping evaluation, checkpoint, stop check;
\* a training pass of the next epoch starts only after the stop check of
\* the previous one let the loop continue; passes never overlap.
C10_StepOrder ==
    /\ [](/\ trained >= Len(scores)
          /\ Len(scores) >= stepped
          /\ stepped >= evaluated
          /\ evaluated >= Cardinality(ckpts)
          /\ trained <= Cardinality(ckpts) + 1
          /\ ckpts = 0..(Cardinality(ckpts) - 1)
          /\ epoch_bound => trained \in {epoch, epoch + 1}
          /\ stepped >= 1 =>
                scheduler = SchedulerStep(scheduler, scores[stepped], cfg_batch_size)
          /\ pc = "check" => Cardinality(ckpts) = epoch + 1)
    /\ [][trained' # trained =>
             /\ trained' = trained + 1
             /\ Cardinality(ckpts) = trained
             /\ ~earlystopping.early_stop
             /\ epoch = trained]_vars

C10_Witness ==
    /\ trained = 3
    /\ Len(scores) = 2
    /\ stepped = 2
    /\ evaluated = 2
    /\ ckpts = {0, 1}
    /\ epoch = 2
    /\ pc = "eval"

\* ------------------------------------- improvement history (min_delta = 0)
\* the i-th score (1-based) is an improvement iff it is below every earlier one
ImprovementAt(i) == \A j \in 1..(i - 1) : scores[i] < scores[j] - min_delta

\* epoch label (0-based) of the last improvement among the scores so far
LastImprovementEpoch ==
    (CHOOSE i \in 1..Len(scores) :
        /\ ImprovementAt(i)
        /\ \A k \in (i + 1)..Len(scores) : ~ImprovementAt(k)) - 1

\* ------------------------------------------------------------------ C11
\* C11: every epoch whose steps have all run has a checkpoint, improved or
\* not: the store holds the labels of all earlier epochs, the label of the
\* current epoch once its stop check is reached, and exactly 0..stop epoch
\* when the loop was left by early stop or exhaustion.
C11_CheckpointEveryEpoch ==
    /\ epoch_bound => \A e \in 0..(epoch - 1) : e \in ckpts
    /\ \A e \in ckpts : e \in 0..epoch
    /\ pc = "check" => epoch \in ckpts
    /\ ctl \in {"STOPPING_EARLY", "DONE"} => ckpts = 0..epoch

C11_Witness ==
    /\ ctl = "STOPPING_EARLY"
    /\ pc = "finished"
    /\ cfg_patience = 2
    /\ epoch = 3
    /\ ckpts = 0..3
    /\ ~ImprovementAt(3)
    /\ ~ImprovementAt(4)

\* ------------------------------------------------------------------ C12
\* C12: after an early stop the selected checkpoint, stop_epoch - patience,
\* is the epoch of the last recognized improvement, the one whose score is
\* best_score, and its label is >= 0.
C12_SelectsLastImprovement ==
    ctl = "STOPPING_EARLY" =>
        /\ save_ep = stop_epoch - cfg_patience
        /\ save_ep >= 0
        /\ save_ep = LastImprovementEpoch
        /\ scores[save_ep + 1] = earlystopping.best_score

C12_Witness ==
    /\ ctl = "STOPPING_EARLY"
    /\ pc = "finished"
    /\ cfg_patience = 2
    /\ scores = <<SpikeLoss, 5, 5, 4, 5, 4>>
    /\ save_ep = 3

\* ------------------------------------------------------------------ C13
\* C13: after an interruption during epoch k the checkpoint selected and
\* reported on is that of epoch k - 1, whatever the patience.
C13_InterruptSelectsPrevious ==
    ctl = "INTERRUPTED" =>
        /\ sigint
        /\ save_bound
        /\ save_ep = epoch - 1
        /\ \A i \in 1..Len(reports) : reports[i].model_PATH = epoch - 1

C13_Witness ==
    /\ ctl = "INTERRUPTED"
    /\ pc = "finished"
    /\ cfg_patience = 3
    /\ epoch = 2
    /\ Len(reports) = 3
    /\ reports[3].model_PATH = 1

C15_FailureAborts ==
    [][failed' =>
          /\ pc' = "aborted"
          /\ elapsed_written' = 0
          /\ reports' = <<>>
          /\ UNCHANGED <<trained, scores, stepped, evaluated, ckpts, epoch,
                         save_ep, save_bound>>]_vars

C15_Witness ==
    /\ failed
    /\ pc = "aborted"
    /\ epoch = 1
    /\ trained = 2
    /\ Len(scores) = 1

\* ------------------------------------------------------------------ C16
\* C16: whenever the reporting stage is reached the selected checkpoint has
\* a label in 0..last completed epoch and its file was written in this run.
C16_SelectedCheckpointExists ==
    pc = "report" =>
        /\ save_bound
        /\ save_ep \in 0..LastCompleted
        /\ save_ep \in ckpts

\* ------------------------------------------------------------------ C17
\* C17: n_iter starts at 0 and is never reset or decreased; the value a
\* training pass returns is the one given to the validation pass of the
\* same epoch and to the training pass of the next epoch.
C17_StepCounterShared ==
    /\ [](/\ trained = 0 => n_iter = 0
          /\ trained >= 1 =>
                /\ train_step = (trained - 1) * BatchesPerEpoch
                /\ n_iter = train_step + BatchesPerEpoch
          /\ Len(scores) >= 1 => val_step = Len(scores) * BatchesPerEpoch
          /\ (Len(scores) >= 1 /\ Len(scores) = trained) => val_step = n_iter)
    /\ [][/\ n_iter' >= n_iter
          /\ trained' # trained => train_step' = n_iter
          /\ Len(scores') # Len(scores) => val_step' = n_iter]_vars

C17_Witness ==
    /\ trained = 3
    /\ Len(scores) = 2
    /\ train_step = 2 * BatchesPerEpoch
    /\ val_step = 2 * BatchesPerEpoch
    /\ n_iter = 3 * BatchesPerEpoch

\* ------------------------------------------------------------------ C18
\* C18: a run in which no pass fails never dies before the reporting stage
\* is complete, ends with all three reports, and runs at most cfg.epoch
\* epochs, each index once and in increasing order.
C18_CompletesReporting ==
    /\ trained <= cfg_epoch
    /\ epoch_bound => trained \in {epoch, epoch + 1}
    /\ (pc = "aborted") => failed
    /\ (pc = "finished") => Len(reports) = Len(phaze)
====
